---------------------------- MODULE Spec2Model ----------------------------
(***************************************************************************)
(* A model of the orthtree ("quadtree") crate: Interval, Region, Point,    *)
(* the Query capability (Region and the distance query) and the QuadTree   *)
(* with insert / subdivide / query.                                        *)
(*                                                                         *)
(* Numbers.  The code works on f64.  A coordinate g of the model stands    *)
(* for the f64 value 1.0 + g * f64::EPSILON, i.e. the model counts in      *)
(* units of the spacing of the representable values of the binade [1, 2).  *)
(* On these values subtraction, comparison and the sums below are exact,   *)
(* and f64::midpoint is (a + b) / 2 rounded to nearest, ties to even.      *)
(* This is what makes the "unsplittable interval" of the code reachable    *)
(* with small numbers: the interval [0, 1) of the model is the interval    *)
(* [1.0, 1.0 + EPSILON) of test_quadtree_single_point_interval.            *)
(***************************************************************************)
EXTENDS Integers, Sequences, FiniteSets, TLC

\* Dimension of the trees of the model (QuadTree<2, _>, as in the tests).
N == 2

\* Coordinates of points and of root intervals range over 0..MaxCoord.
MaxCoord == 2

\* Number of insert calls made on one tree.
MaxInserts == 4

\* Capacities (max_points) range over 1..MaxCap.
MaxCap == 2

\* Number of items inserted, in two orders, into the two trees of SpecOrder.
MaxOrderInserts == 3

\* Radii of distance queries range over 1..MaxRadius.
MaxRadius == 1

\* Coordinates of the intervals and regions of SpecGeom range over
\* 0..MaxGeomCoord.
MaxGeomCoord == 4

\* The longest slice try_new is called with in the geometry (N + 1: one
\* coordinate too many).
MaxVecLen == 3

Coords == 0..MaxCoord

GeomCoords == 0..MaxGeomCoord

Axes == 1..N

(***************************************************************************)
(* Interval (interval.rs)                                                  *)
(***************************************************************************)

\* Interval { start, end }
Interval(s, e) == [start |-> s, end |-> e]

\* The f64 values try_new is given: a grid value, NaN or an infinity.
Finite(v) == [kind |-> "finite", v |-> v]
NaN == [kind |-> "nan", v |-> 0]
PosInf == [kind |-> "+inf", v |-> 0]
NegInf == [kind |-> "-inf", v |-> 0]

\* f64::is_finite
IsFinite(a) == a.kind = "finite"

\* a < b on f64: false when either is NaN.
F64Lt(a, b) ==
    CASE a.kind = "nan" \/ b.kind = "nan" -> FALSE
      [] a.kind = "-inf" -> b.kind # "-inf"
      [] a.kind = "+inf" -> FALSE
      [] OTHER -> b.kind = "+inf" \/ (b.kind = "finite" /\ a.v < b.v)

\* The try_new of the first version of the crate: ensure!(start <= end).
IntervalTryNewLeq(start, end) ==
    IF (F64Lt(start, end) \/ start = end) /\ IsFinite(start) /\ IsFinite(end)
    THEN [ok |-> TRUE, value |-> Interval(start.v, end.v)]
    ELSE [ok |-> FALSE, value |-> Interval(0, 0)]

\* Interval::try_new: the three ensure!s, then Ok(Interval { start, end }).
IntervalTryNew(start, end) ==
    IF F64Lt(start, end) /\ IsFinite(start) /\ IsFinite(end)
    THEN [ok |-> TRUE, value |-> Interval(start.v, end.v)]
    ELSE [ok |-> FALSE, value |-> Interval(0, 0)]

\* Interval::try_new on two grid values: Ok exactly when start < end.
IntervalTryNewOk(s, e) == IntervalTryNew(Finite(s), Finite(e)).ok

\* A closed interval: the end counts as inside.
IntervalContainsClosed(i, v) == i.start <= v /\ v <= i.end

\* Interval::contains: half-open.
IntervalContains(i, v) == i.start <= v /\ v < i.end

\* f64::midpoint on the grid: (a + b) / 2, round to nearest, ties to even.
Midpoint(a, b) ==
    LET s == a + b
        lo == s \div 2
    IN  IF s % 2 = 0 THEN lo
        ELSE IF lo % 2 = 0 THEN lo ELSE lo + 1

\* The subdivide of the first version of the crate: always two halves.
IntervalSubdivideNoCollapse(i) ==
    LET midpoint == Midpoint(i.start, i.end)
    IN  << Interval(i.start, midpoint), Interval(midpoint, i.end) >>

\* A subdivide whose second half starts one value after the midpoint.
IntervalSubdivideGap(i) ==
    LET midpoint == Midpoint(i.start, i.end)
    IN  IF i.start = midpoint
        THEN << i >>
        ELSE << Interval(i.start, midpoint), Interval(midpoint + 1, i.end) >>

\* Interval::subdivide
IntervalSubdivide(i) ==
    LET midpoint == Midpoint(i.start, i.end)
    IN  IF i.start = midpoint
        THEN << i >>
        ELSE << Interval(i.start, midpoint), Interval(midpoint, i.end) >>

\* An intersection test that only looks for the other's start inside self.
IntervalIntersectsStartInside(a, b) == a.start <= b.start /\ b.start < a.end

\* An intersection test that counts touching intervals as intersecting.
IntervalIntersectsTouching(a, b) == a.start <= b.end /\ b.start <= a.end

\* Interval::intersects
IntervalIntersects(a, b) == a.start < b.end /\ b.start < a.end

(***************************************************************************)
(* Point (point.rs)                                                        *)
(***************************************************************************)

\* Point<N>: N coordinates.
Points == [Axes -> Coords]

\* What try_new returns or does.
TryOk(v) == [kind |-> "Ok", value |-> v]
TryErr(msg) == [kind |-> "Err", value |-> msg]
Panic(msg) == [kind |-> "panic", value |-> msg]

\* itertools' collect_array: Some(array) when the iterator yields exactly N
\* elements, None otherwise.
CollectArray(vec) ==
    IF Len(vec) = N THEN << [k \in Axes |-> vec[k]] >> ELSE << >>

\* A try_new without the ensure!: expect() meets None.
PointTryNewNoEnsure(vec) ==
    LET a == CollectArray(vec)
    IN  IF a = << >> THEN Panic("same sized array") ELSE TryOk(a[1])

\* Point::try_new(&[T])
PointTryNew(vec) ==
    IF Len(vec) # N
    THEN TryErr("cannot create point of size N from Vec of that size")
    ELSE LET a == CollectArray(vec)
         IN  IF a = << >> THEN Panic("same sized array") ELSE TryOk(a[1])

\* The square of Point::distance: the sum over the axes of diff * diff.
RECURSIVE SumSquares(_, _, _)
SumSquares(a, b, k) ==
    IF k = 0 THEN 0
    ELSE (a[k] - b[k]) * (a[k] - b[k]) + SumSquares(a, b, k - 1)

\* Point::distance(a, b) <= r.  sqrt is monotonic and correctly rounded and
\* r is a grid value, so sqrt(x) <= r exactly when x <= r * r (r >= 0).
DistanceLeq(a, b, r) == SumSquares(a, b, N) <= r * r

(***************************************************************************)
(* Region (region.rs)                                                      *)
(***************************************************************************)

\* Region::try_new(&[Interval])
RegionTryNew(intervals) ==
    IF Len(intervals) # N
    THEN TryErr("cannot create region of size N from Vec of that size")
    ELSE LET a == CollectArray(intervals)
         IN  IF a = << >> THEN Panic("same sized array") ELSE TryOk(a[1])

\* A containment test with any() in place of all().
RegionContainsAny(r, p) == \E k \in Axes : IntervalContains(r[k], p[k])

\* Region::contains: every axis' interval contains the point's value.
RegionContains(r, p) == \A k \in Axes : IntervalContains(r[k], p[k])

\* zip in place of the product: the k-th element of every list together.
CartesianProductZip(lists) ==
    LET n == CHOOSE m \in 0..Len(lists[1]) :
                 /\ \A i \in 1..Len(lists) : m <= Len(lists[i])
                 /\ \E i \in 1..Len(lists) : m = Len(lists[i])
    IN  [k \in 1..n |-> [i \in 1..Len(lists) |-> lists[i][k]]]

\* itertools' multi_cartesian_product of a list of lists: the last list
\* varies fastest.
RECURSIVE CartesianProduct(_)
CartesianProduct(lists) ==
    IF lists = << >> THEN << << >> >>
    ELSE LET h == Head(lists)
             rest == CartesianProduct(Tail(lists))
             n == Len(rest)
         IN  [k \in 1..(Len(h) * n) |->
                 << h[((k - 1) \div n) + 1] >> \o rest[((k - 1) % n) + 1]]

\* Region::subdivide
RegionSubdivide(r) ==
    CartesianProduct([k \in Axes |-> IntervalSubdivide(r[k])])

\* An intersection test with any() in place of all().
RegionIntersectsAny(a, b) == \E k \in Axes : IntervalIntersects(a[k], b[k])

\* Region::intersects
RegionIntersects(a, b) == \A k \in Axes : IntervalIntersects(a[k], b[k])

(***************************************************************************)
(* Query (query.rs): Region is the trivial query, the distance query is a  *)
(* centre, a radius and the bounding box built from them.                  *)
(***************************************************************************)

\* impl Query for Region
RegionQuery(r) == [kind |-> "Region", region |-> r]

\* CircleQuery::new / DistanceQuery::new: the box of half-open intervals
\* [center - radius, center + radius) on every axis.
DistanceQuery(center, radius) ==
    [kind |-> "Distance", center |-> center, radius |-> radius,
     region |-> [k \in Axes |-> Interval(center[k] - radius, center[k] + radius)]]

\* An implementor of the Query trait with the fine predicate of the distance
\* query and a box that holds the whole closed ball: every axis ends at the
\* next value after center + radius.
ClosedBoxQuery(center, radius) ==
    [kind |-> "ClosedBox", center |-> center, radius |-> radius,
     region |-> [k \in Axes |->
                    Interval(center[k] - radius, center[k] + radius + 1)]]

\* Query::region
QueryRegion(q) == q.region

\* Query::contains
QueryContains(q, p) ==
    IF q.kind = "Region"
    THEN RegionContains(q.region, p)
    ELSE DistanceLeq(q.center, p, q.radius)

(***************************************************************************)
(* QuadTree (quadtree.rs)                                                  *)
(***************************************************************************)

\* The results of insert: Ok(()) or the message of the error.
Ok == "Ok"
ErrOutside == "Point is outside the region"
ErrNotInserted == "Point not inserted into any subtree"
ErrNoSubtrees == "subtrees not created, this is a bug"

\* Option<Vec<QuadTree>>: << >> is None, << v >> is Some(v).
None == << >>
Some(v) == << v >>

\* QuadTree::new.  capacity is points.capacity(), set by Vec::with_capacity.
QuadTreeNew(region, max_points) ==
    [region |-> region, subtrees |-> None, points |-> << >>,
     capacity |-> max_points]

\* The bucket test with one slot held back (len + 1 < capacity).
HasRoomOffByOne(self) == Len(self.points) + 1 < self.capacity

\* Room for one item more than the capacity.
HasRoomInclusive(self) == Len(self.points) <= self.capacity

\* insert's first test: the bucket has room (len < capacity).
HasRoom(self) == Len(self.points) < self.capacity

\* A subdivide that moves the bucket out of the node and drops it.
SubdivideTakesPoints(self) ==
    LET subregions == RegionSubdivide(self.region)
    IN  [self EXCEPT !.points = << >>,
                     !.subtrees =
            Some([k \in 1..Len(subregions) |->
                      QuadTreeNew(subregions[k], self.capacity)])]

\* QuadTree::subdivide
Subdivide(self) ==
    LET subregions == RegionSubdivide(self.region)
    IN  [self EXCEPT !.subtrees =
            Some([k \in 1..Len(subregions) |->
                      QuadTreeNew(subregions[k], self.capacity)])]

\* The first subtree, in order, whose region contains the point; 0 if none.
FirstContaining(vec, p) ==
    LET hits == {k \in 1..Len(vec) : RegionContains(vec[k].region, p)}
    IN  IF hits = {} THEN 0
        ELSE CHOOSE k \in hits : \A j \in hits : k <= j

\* An insert that subdivides eagerly, as soon as the push fills the bucket.
RECURSIVE InsertEager(_, _)
InsertEager(self, item) ==
    IF HasRoom(self)
    THEN IF ~RegionContains(self.region, item.point)
         THEN [tree |-> self, res |-> ErrOutside]
         ELSE LET pushed == [self EXCEPT !.points = Append(@, item)]
              IN  [tree |-> IF HasRoom(pushed) THEN pushed
                            ELSE Subdivide(pushed),
                   res |-> Ok]
    ELSE LET vec == self.subtrees[1]
             k == FirstContaining(vec, item.point)
         IN  IF k = 0
             THEN [tree |-> self, res |-> ErrNotInserted]
             ELSE LET sub == InsertEager(vec[k], item)
                  IN  [tree |-> [self EXCEPT !.subtrees[1][k] = sub.tree],
                       res |-> sub.res]

\* An insert that subdivides a full node on every call, children or not.
RECURSIVE InsertResubdivides(_, _)
InsertResubdivides(self, item) ==
    IF HasRoom(self)
    THEN IF ~RegionContains(self.region, item.point)
         THEN [tree |-> self, res |-> ErrOutside]
         ELSE [tree |-> [self EXCEPT !.points = Append(@, item)], res |-> Ok]
    ELSE LET divided == Subdivide(self)
             vec == divided.subtrees[1]
             k == FirstContaining(vec, item.point)
         IN  IF k = 0
             THEN [tree |-> divided, res |-> ErrNotInserted]
             ELSE LET sub == InsertResubdivides(vec[k], item)
                  IN  [tree |-> [divided EXCEPT !.subtrees[1][k] = sub.tree],
                       res |-> sub.res]

\* QuadTree::insert: the tree after the call and the call's result.
RECURSIVE Insert(_, _)
Insert(self, item) ==
    IF HasRoom(self)
    THEN IF ~RegionContains(self.region, item.point)
         THEN [tree |-> self, res |-> ErrOutside]
         ELSE [tree |-> [self EXCEPT !.points = Append(@, item)], res |-> Ok]
    ELSE LET divided == IF self.subtrees = None THEN Subdivide(self) ELSE self
         IN  IF divided.subtrees = None
             THEN [tree |-> divided, res |-> ErrNoSubtrees]
             ELSE LET vec == divided.subtrees[1]
                      k == FirstContaining(vec, item.point)
                  IN  IF k = 0
                      THEN [tree |-> divided, res |-> ErrNotInserted]
                      ELSE LET sub == Insert(vec[k], item)
                           IN  [tree |-> [divided EXCEPT
                                            !.subtrees[1][k] = sub.tree],
                                res |-> sub.res]

\* Concatenation of a sequence of sequences (Iterator::flat_map / chain).
RECURSIVE Flatten(_)
Flatten(ss) == IF ss = << >> THEN << >> ELSE Head(ss) \o Flatten(Tail(ss))

\* QuadTree::query: the items the iterator yields, in order.
RECURSIVE Query(_, _)
Query(self, q) ==
    LET my_iter == SelectSeq(self.points,
                             LAMBDA item : QueryContains(q, item.point))
        subtree_iter ==
            Flatten([o \in 1..Len(self.subtrees) |->
                Flatten([k \in 1..Len(self.subtrees[o]) |->
                    IF RegionIntersects(self.subtrees[o][k].region,
                                        QueryRegion(q))
                    THEN Query(self.subtrees[o][k], q)
                    ELSE << >>])])
    IN  my_iter \o subtree_iter

\* The point p lies in the box r: on every axis start <= p < end.
Inside(r, p) == \A k \in Axes : r[k].start <= p[k] /\ p[k] < r[k].end

\* The elements of a sequence.
Range(s) == {s[i] : i \in 1..Len(s)}

\* The children of a node (none for a leaf).
Children(t) ==
    IF t.subtrees = None THEN { }
    ELSE {t.subtrees[1][k] : k \in 1..Len(t.subtrees[1])}

\* Every node of a tree.
RECURSIVE NodesOf(_)
NodesOf(t) == {t} \cup UNION {NodesOf(c) : c \in Children(t)}

\* Every item held in some bucket of a tree.
ItemsOf(t) == UNION {Range(n.points) : n \in NodesOf(t)}

(***************************************************************************)
(* The state machine: one tree, built over a root region with a capacity,  *)
(* on which a caller makes insert and query calls.                         *)
(***************************************************************************)

\* The intervals Interval::try_new accepts on the grid.
Intervals ==
    {Interval(s, e) : s \in Coords, e \in Coords} \cap
    {i \in [start : Coords, end : Coords] : IntervalTryNewOk(i.start, i.end)}

Regions == [Axes -> Intervals]

\* The queries a caller makes.
Queries ==
    {RegionQuery(r) : r \in Regions} \cup
    {DistanceQuery(c, r) : c \in Points, r \in 1..MaxRadius} \cup
    {ClosedBoxQuery(c, r) : c \in Points, r \in 1..MaxRadius}

VARIABLES
    tree,      \* the QuadTree
    other,     \* a second QuadTree over the same region (SpecOrder only)
    before,    \* the tree as it was when the last call was made
    calls,     \* the number of insert calls made so far
    inserted,  \* the items whose insert returned Ok, in call order
    op,        \* the last call: "new", "insert" or "query"
    arg,       \* the argument of the last call
    result,    \* what the last call returned
    pc,        \* "insert" while a call of insert is running (SpecSteps only)
    stack      \* the child indices the running insert went down (SpecSteps only)

vars == << tree, other, before, calls, inserted, op, arg, result, pc, stack >>

Init ==
    \E region \in Regions, max_points \in 1..MaxCap :
        /\ tree = QuadTreeNew(region, max_points)
        /\ other = tree
        /\ before = tree
        /\ calls = 0
        /\ inserted = << >>
        /\ op = "new"
        /\ arg = << >>
        /\ result = << >>
        /\ pc = "idle"
        /\ stack = << >>

\* quadtree.insert(item): the item carries its point and a payload that
\* tells it from every other item (the "P{i}" of the tests).
InsertCall ==
    /\ calls < MaxInserts
    /\ \E p \in Points :
          LET item == [point |-> p, id |-> calls + 1]
              r == Insert(tree, item)
          IN  /\ tree' = r.tree
              /\ before' = tree
              /\ calls' = calls + 1
              /\ inserted' = IF r.res = Ok THEN Append(inserted, item)
                             ELSE inserted
              /\ op' = "insert"
              /\ arg' = item
              /\ result' = r.res
              /\ UNCHANGED << other, pc, stack >>

\* A query that takes the root's bucket with it.
QueryCallDrains ==
    \E q \in Queries :
        /\ op' = "query"
        /\ arg' = q
        /\ result' = Query(tree, q)
        /\ before' = tree
        /\ tree' = [tree EXCEPT !.points = << >>]
        /\ UNCHANGED << other, calls, inserted, pc, stack >>

\* quadtree.query(&q).collect()
QueryCall ==
    \E q \in Queries :
        /\ op' = "query"
        /\ arg' = q
        /\ result' = Query(tree, q)
        /\ before' = tree
        /\ UNCHANGED << tree, other, calls, inserted, pc, stack >>

Next == InsertCall \/ QueryCall

Spec == Init /\ [][Next]_vars

(***************************************************************************)
(* Two fresh trees over the same region with the same capacity.  The       *)
(* caller inserts in-bounds items into the first, then the same items in   *)
(* any order into the second, then puts one query to both.                 *)
(***************************************************************************)

\* first.insert(item), for an item inside the root region.
InsertFirst ==
    /\ calls < MaxOrderInserts
    /\ other.points = << >>
    /\ \E p \in Points :
          /\ Inside(tree.region, p)
          /\ LET item == [point |-> p, id |-> calls + 1]
                 r == Insert(tree, item)
             IN  /\ tree' = r.tree
                 /\ before' = tree
                 /\ calls' = calls + 1
                 /\ inserted' = IF r.res = Ok THEN Append(inserted, item)
                                ELSE inserted
                 /\ op' = "insert"
                 /\ arg' = item
                 /\ result' = r.res
                 /\ UNCHANGED << other, pc, stack >>

\* second.insert(item), for one of the items the first tree was given that
\* the second tree has not been given yet.
InsertSecond ==
    /\ \E i \in 1..Len(inserted) :
          /\ inserted[i] \notin ItemsOf(other)
          /\ LET r == Insert(other, inserted[i])
             IN  /\ other' = r.tree
                 /\ before' = other
                 /\ op' = "insert"
                 /\ arg' = inserted[i]
                 /\ result' = r.res
                 /\ UNCHANGED << tree, calls, inserted, pc, stack >>

\* first.query(&q).collect() and second.query(&q).collect(), once both trees
\* hold the same items.
QueryBoth ==
    /\ inserted # << >>
    /\ ItemsOf(other) = Range(inserted)
    /\ \E q \in Queries :
          /\ op' = "queryBoth"
          /\ arg' = q
          /\ result' = << Query(tree, q), Query(other, q) >>
          /\ before' = tree
          /\ UNCHANGED << tree, other, calls, inserted, pc, stack >>

NextOrder == InsertFirst \/ InsertSecond \/ QueryBoth

SpecOrder == Init /\ [][NextOrder]_vars

(***************************************************************************)
(* The geometry on its own: a caller builds intervals and regions on the   *)
(* grid 0..MaxGeomCoord and calls try_new, contains, subdivide and         *)
(* intersects on them; it may subdivide again what subdivide returned.     *)
(***************************************************************************)

\* The values try_new is called with.
F64Values == {Finite(v) : v \in GeomCoords} \cup {NaN, PosInf, NegInf}

\* The intervals try_new returns on the grid.
GeomIntervals ==
    {IntervalTryNew(a, b).value : a \in F64Values, b \in F64Values} \cap
    {i \in [start : GeomCoords, end : GeomCoords] :
        IntervalTryNew(Finite(i.start), Finite(i.end)).ok}

GeomRegions == [Axes -> GeomIntervals]

InitGeom ==
    /\ tree = None
    /\ other = None
    /\ before = None
    /\ calls = 0
    /\ inserted = << >>
    /\ op = "new"
    /\ arg = << >>
    /\ result = << >>
    /\ pc = "idle"
    /\ stack = << >>

\* Interval::try_new(start, end)
TryNewCall ==
    \E a \in F64Values, b \in F64Values :
        /\ op' = "Interval::try_new"
        /\ arg' = << a, b >>
        /\ result' = IntervalTryNew(a, b)
        /\ UNCHANGED << tree, other, before, calls, inserted, pc, stack >>

\* interval.subdivide(), on an interval try_new returned or on one the
\* last subdivide returned.
IntervalSubdivideCall ==
    \E i \in GeomIntervals \cup
              (IF op = "Interval::subdivide" THEN Range(result) ELSE { }) :
        /\ op' = "Interval::subdivide"
        /\ arg' = i
        /\ result' = IntervalSubdivide(i)
        /\ UNCHANGED << tree, other, before, calls, inserted, pc, stack >>

\* a.intersects(&b)
IntervalIntersectsCall ==
    \E a \in GeomIntervals, b \in GeomIntervals :
        /\ op' = "Interval::intersects"
        /\ arg' = << a, b >>
        /\ result' = IntervalIntersects(a, b)
        /\ UNCHANGED << tree, other, before, calls, inserted, pc, stack >>

\* region.subdivide(), on a region of valid intervals or on a box the last
\* subdivide returned.
RegionSubdivideCall ==
    \E r \in GeomRegions \cup
              (IF op = "Region::subdivide" THEN Range(result) ELSE { }) :
        /\ op' = "Region::subdivide"
        /\ arg' = r
        /\ result' = RegionSubdivide(r)
        /\ UNCHANGED << tree, other, before, calls, inserted, pc, stack >>

\* The regions intersects is called with: valid intervals that end at
\* MaxCoord + 1 at the latest (apart, touching, overlapping and nested).
IntersectRegions == [Axes -> {i \in GeomIntervals : i.end <= MaxCoord + 1}]

\* a.intersects(&b) on two regions of valid intervals.
RegionIntersectsCall ==
    \E a \in IntersectRegions, b \in IntersectRegions :
        /\ op' = "Region::intersects"
        /\ arg' = << a, b >>
        /\ result' = RegionIntersects(a, b)
        /\ UNCHANGED << tree, other, before, calls, inserted, pc, stack >>

\* The slices of every length up to MaxVecLen over the set S.
SlicesOf(S) == UNION {[1..n -> S] : n \in 0..MaxVecLen}

\* Point::<N>::try_new(&vec)
PointTryNewCall ==
    \E vec \in SlicesOf(0..1) :
        /\ op' = "Point::try_new"
        /\ arg' = vec
        /\ result' = PointTryNew(vec)
        /\ UNCHANGED << tree, other, before, calls, inserted, pc, stack >>

\* Region::<N>::try_new(&intervals)
RegionTryNewCall ==
    \E intervals \in SlicesOf({Interval(0, 1), Interval(1, 3)}) :
        /\ op' = "Region::try_new"
        /\ arg' = intervals
        /\ result' = RegionTryNew(intervals)
        /\ UNCHANGED << tree, other, before, calls, inserted, pc, stack >>

NextGeom ==
    \/ TryNewCall
    \/ IntervalSubdivideCall
    \/ IntervalIntersectsCall
    \/ RegionSubdivideCall
    \/ RegionIntersectsCall
    \/ PointTryNewCall
    \/ RegionTryNewCall

SpecGeom == InitGeom /\ [][NextGeom]_vars

----------------------------------------------------------------------------
\* insert, one invocation at a time.  Each level of the recursion of
\* QuadTree::insert is a step; stack is the way from the root to the node
\* whose invocation runs next.

MaxStepInserts == 3
MaxDepth == 4

\* The node reached from t through the child indices of path.
RECURSIVE NodeAt(_, _)
NodeAt(t, path) ==
    IF path = << >> THEN t
    ELSE NodeAt(t.subtrees[1][Head(path)], Tail(path))

\* The tree t with the node at path replaced by n (the &mut self of the
\* invocation writes through to the root's tree).
RECURSIVE ReplaceAt(_, _, _)
ReplaceAt(t, path, n) ==
    IF path = << >> THEN n
    ELSE [t EXCEPT !.subtrees[1][Head(path)] =
                       ReplaceAt(@, Tail(path), n)]

InitSteps ==
    \E region \in Regions, max_points \in 1..MaxCap :
        /\ tree = QuadTreeNew(region, max_points)
        /\ other = tree
        /\ before = tree
        /\ calls = 0
        /\ inserted = << >>
        /\ op = "new"
        /\ arg = << >>
        /\ result = << >>
        /\ pc = "idle"
        /\ stack = << >>

\* The caller calls quadtree.insert(item) on the root.
InsertEnter ==
    /\ pc = "idle"
    /\ calls < MaxStepInserts
    /\ \E p \in Points :
          /\ arg' = [point |-> p, id |-> calls + 1]
          /\ op' = "insert"
          /\ pc' = "insert"
          /\ stack' = << >>
          /\ before' = tree
          /\ calls' = calls + 1
          /\ result' = << >>
          /\ UNCHANGED << tree, other, inserted >>

\* One invocation of insert, on the node at stack: it returns (and with
\* it, through the ? of every caller, the whole call) or it calls insert
\* on a child.
InsertBody ==
    /\ pc = "insert"
    /\ LET self == NodeAt(tree, stack)
       IN  IF HasRoom(self)
           THEN IF ~RegionContains(self.region, arg.point)
                THEN /\ result' = ErrOutside
                     /\ pc' = "idle"
                     /\ stack' = << >>
                     /\ UNCHANGED << tree, inserted >>
                ELSE /\ tree' = ReplaceAt(tree, stack,
                                    [self EXCEPT !.points = Append(@, arg)])
                     /\ inserted' = Append(inserted, arg)
                     /\ result' = Ok
                     /\ pc' = "idle"
                     /\ stack' = << >>
           ELSE LET divided == IF self.subtrees = None THEN Subdivide(self)
                               ELSE self
                    k == FirstContaining(divided.subtrees[1], arg.point)
                IN  IF k = 0
                    THEN /\ tree' = ReplaceAt(tree, stack, divided)
                         /\ result' = ErrNotInserted
                         /\ pc' = "idle"
                         /\ stack' = << >>
                         /\ UNCHANGED inserted
                    ELSE /\ Len(stack) < MaxDepth
                         /\ tree' = ReplaceAt(tree, stack, divided)
                         /\ stack' = Append(stack, k)
                         /\ UNCHANGED << result, pc, inserted >>
    /\ UNCHANGED << other, before, calls, op, arg >>

NextSteps == InsertEnter \/ InsertBody

SpecSteps == InitSteps /\ [][NextSteps]_vars

\* A call that has started keeps running: the program is sequential and
\* nothing else can take the processor from it for ever.
SpecStepsFair == SpecSteps /\ WF_vars(InsertBody)

(***************************************************************************)
(* Operators the properties are stated with.                               *)
(***************************************************************************)

\* How often x occurs in the sequence s.
Count(x, s) == Cardinality({i \in 1..Len(s) : s[i] = x})

\* The two sequences hold the same items the same number of times.
SameItems(s, t) ==
    /\ Len(s) = Len(t)
    /\ \A x \in Range(s) \cup Range(t) : Count(x, s) = Count(x, t)

\* A linear scan: the items of s the query's fine predicate accepts.
Scan(s, q) == SelectSeq(s, LAMBDA item : QueryContains(q, item.point))

\* The sum of the bucket sizes of a sequence of nodes.
RECURSIVE BucketSum(_)
BucketSum(vec) ==
    IF vec = << >> THEN 0 ELSE Len(Head(vec).points) + BucketSum(Tail(vec))

\* subdivide() splits the region on every axis.
Splittable(r) == \A k \in Axes : Len(IntervalSubdivide(r[k])) = 2

\* 2^N
RECURSIVE Pow2(_)
Pow2(k) == IF k = 0 THEN 1 ELSE 2 * Pow2(k - 1)

\* Every insert call made so far was of an in-bounds item and succeeded.
AllInsertsOk == Len(inserted) = calls

\* The pairs of nodes that sit at the same place in two trees.
RECURSIVE PairsOf(_, _)
PairsOf(b, a) ==
    {<< b, a >>} \cup
    (IF b.subtrees # None /\ a.subtrees # None
     THEN UNION {PairsOf(b.subtrees[1][k], a.subtrees[1][k]) :
                    k \in 1..Len(b.subtrees[1]) \cap 1..Len(a.subtrees[1])}
     ELSE { })

\* The sequence s is the beginning of the sequence t.
IsPrefix(s, t) == Len(s) <= Len(t) /\ \A i \in 1..Len(s) : s[i] = t[i]

\* The region splits on no axis: every midpoint equals the start.
Unsplittable(r) == \A k \in Axes : Midpoint(r[k].start, r[k].end) = r[k].start

\* The number of levels below the root.
RECURSIVE Depth(_)
Depth(t) ==
    IF t.subtrees = None THEN 0
    ELSE LET ds == {Depth(c) : c \in Children(t)}
         IN  1 + (CHOOSE d \in ds : \A e \in ds : e <= d)

\* The product of the lengths of a sequence of sequences.
RECURSIVE LenProduct(_)
LenProduct(lists) ==
    IF lists = << >> THEN 1 ELSE Len(Head(lists)) * LenProduct(Tail(lists))

\* The points of the grid of the trees and one value on either side.
NearPoints == [Axes -> (0 - 1)..(MaxCoord + 1)]

(***************************************************************************)
(* Properties                                                              *)
(***************************************************************************)

\* C1: round trip.  A query with the root region returns every item whose
\* insert succeeded exactly once (coincident points included), whatever the
\* capacity and however often the tree has subdivided.
C1_RoundTrip ==
    (op = "query" /\ arg = RegionQuery(tree.region))
        => SameItems(result, inserted)

\* C1 witness: a root-region query on a subdivided tree that holds two items
\* with the same point.
C1_Witness ==
    /\ op = "query" /\ arg = RegionQuery(tree.region)
    /\ tree.subtrees # None
    /\ Len(result) >= 3
    /\ \E i, j \in 1..Len(inserted) :
          i # j /\ inserted[i].point = inserted[j].point

\* C2: a Region query returns exactly the stored items whose point the
\* region contains: the same items as a linear scan over the inserted items.
C2_RegionQueryIsScan ==
    (op = "query" /\ arg.kind = "Region")
        => SameItems(result, Scan(inserted, arg))

\* C2 witness: a Region query on a subdivided tree that returns an item held
\* in a child and leaves out an item that is stored.
C2_Witness ==
    /\ op = "query" /\ arg.kind = "Region"
    /\ tree.subtrees # None
    /\ \E c \in Children(tree) : Range(c.points) \cap Range(result) # { }
    /\ Len(result) < Len(inserted)

\* C3 (as claimed): a distance query returns exactly the stored items within
\* the radius of the centre: the same items as a linear scan.
C3_DistanceQueryIsScan ==
    (op = "query" /\ arg.kind = "Distance")
        => SameItems(result, Scan(inserted, arg))

\* C4 (as claimed): two trees given the same items in two orders return the
\* same set of items for any one query, a Region or a distance query.
C4_OrderIndependent ==
    op = "queryBoth" => Range(result[1]) = Range(result[2])

\* C5: an insert of an item whose point is outside the root region returns
\* an error and the item is in no bucket of the tree.
C5_OutsideRejected ==
    (op = "insert" /\ ~Inside(tree.region, arg.point))
        => (result # Ok /\ arg \notin ItemsOf(tree))

\* C5 witness: an out-of-bounds insert made on a root that was a full leaf.
C5_Witness ==
    /\ op = "insert" /\ ~Inside(tree.region, arg.point)
    /\ before.subtrees = None
    /\ Len(before.points) = before.capacity
    /\ result # Ok

\* C6 (as claimed): an insert that returns an error leaves the tree as it
\* was before the call.
C6_RejectedInsertNoChange ==
    (op = "insert" /\ result # Ok) => tree = before

\* C7 (as claimed): insert never ends with the internal-invariant error; a
\* point outside the root region is rejected with the out-of-bounds error.
C7_NotInsertedUnreachable ==
    op = "insert" =>
        /\ result # ErrNotInserted
        /\ (~Inside(tree.region, arg.point) => result = ErrOutside)

\* C8: an insert of an item whose point is inside the root region returns
\* Ok, and at every node with children whose region contains the point
\* exactly one child's region contains it.
C8_InsideAccepted ==
    (op = "insert" /\ Inside(tree.region, arg.point))
        => /\ result = Ok
           /\ \A n \in NodesOf(tree) :
                 (n.subtrees # None /\ Inside(n.region, arg.point))
                     => Cardinality({k \in 1..Len(n.subtrees[1]) :
                            RegionContains(n.subtrees[1][k].region, arg.point)}) = 1

\* C8 witness: an in-bounds insert that went down two levels, into a
\* grandchild of the root.
C8_Witness ==
    /\ op = "insert" /\ Inside(tree.region, arg.point)
    /\ result = Ok
    /\ \E c \in Children(tree) : \E g \in Children(c) : arg \in Range(g.points)

\* C9: after k <= C successful inserts into a fresh tree the tree is a single
\* leaf whose bucket holds the k items.
C9_BelowCapacityLeaf ==
    (AllInsertsOk /\ calls <= tree.capacity)
        => (tree.subtrees = None /\ tree.points = inserted)

\* C9 witness: a tree of capacity 2 filled to capacity.
C9_Witness ==
    /\ AllInsertsOk /\ calls = tree.capacity /\ calls = 2
    /\ op = "insert"

\* C10: the (C+1)-th successful insert into a fresh tree whose region splits
\* on every axis gives the root 2^N children, and the children's buckets
\* hold one item in total, the one just inserted.
C10_FirstSubdivision ==
    (op = "insert" /\ AllInsertsOk /\ calls = tree.capacity + 1
        /\ Splittable(tree.region))
        => /\ tree.subtrees # None
           /\ Len(tree.subtrees[1]) = Pow2(N)
           /\ BucketSum(tree.subtrees[1]) = 1
           /\ \E c \in Children(tree) : c.points = << arg >>
           /\ Len(tree.points) = tree.capacity

\* C10 witness: the third insert into a tree of capacity 2 subdivided the root.
C10_Witness ==
    /\ op = "insert" /\ AllInsertsOk /\ calls = tree.capacity + 1
    /\ Splittable(tree.region)
    /\ tree.capacity = 2
    /\ before.subtrees = None /\ tree.subtrees # None

\* The value v lies in the interval i, by the bounds alone.
In(i, v) == i.start <= v /\ v < i.end

\* The grid values of SpecGeom and one value on either side.
GeomValues == (0 - 1)..(MaxGeomCoord + 1)

GeomPoints == [Axes -> GeomValues]

\* C12: partition.  Every point of a region lies in exactly one of the boxes
\* subdivide returns, and no box holds a point outside the region, whether
\* the region splits on every axis, on some or on none.
C12_SubdividePartition ==
    op = "Region::subdivide" =>
        \A p \in GeomPoints :
            /\ Inside(arg, p) =>
                  Cardinality({k \in 1..Len(result) :
                                  RegionContains(result[k], p)}) = 1
            /\ \A k \in 1..Len(result) :
                  RegionContains(result[k], p) => Inside(arg, p)

\* C12 witness: a region that splits on one axis and not on the other.
C12_Witness ==
    /\ op = "Region::subdivide"
    /\ Len(result) = 2
    /\ \E p \in GeomPoints : Inside(arg, p)

\* C13: subdivide of a valid interval [s, e) with midpoint m returns the one
\* interval [s, e) exactly when m = s, and otherwise [s, m) and [m, e), which
\* together hold the values of [s, e) and share none.
C13_IntervalSubdivide ==
    (op = "Interval::subdivide" /\ arg.start < arg.end) =>
        LET m == Midpoint(arg.start, arg.end)
        IN  IF m = arg.start
            THEN result = << arg >>
            ELSE /\ result = << Interval(arg.start, m), Interval(m, arg.end) >>
                 /\ \A v \in GeomValues :
                       /\ (In(result[1], v) \/ In(result[2], v)) <=> In(arg, v)
                       /\ ~(In(result[1], v) /\ In(result[2], v))

\* C13 witness: an interval split into two halves that both hold a value.
C13_Witness ==
    /\ op = "Interval::subdivide" /\ arg.start < arg.end
    /\ Len(result) = 2
    /\ \E v, w \in GeomValues : In(result[1], v) /\ In(result[2], w)

\* C14: try_new succeeds exactly when start < end and both are finite; the
\* interval it returns contains v exactly when start <= v < end, so it
\* contains its start and not its end.
C14_TryNew ==
    op = "Interval::try_new" =>
        /\ result.ok <=> /\ arg[1].kind = "finite" /\ arg[2].kind = "finite"
                         /\ arg[1].v < arg[2].v
        /\ result.ok =>
              /\ result.value = Interval(arg[1].v, arg[2].v)
              /\ IntervalContains(result.value, arg[1].v)
              /\ ~IntervalContains(result.value, arg[2].v)
              /\ \A v \in GeomValues :
                    IntervalContains(result.value, v)
                        <=> (arg[1].v <= v /\ v < arg[2].v)

\* C14 witness: try_new refuses two equal finite bounds.
C14_Witness ==
    /\ op = "Interval::try_new"
    /\ arg[1].kind = "finite" /\ arg[1] = arg[2]
    /\ ~result.ok

\* C15: intersects is symmetric and holds exactly when some value lies in
\* both intervals; intervals that only touch do not intersect.
C15_Intersects ==
    op = "Interval::intersects" =>
        /\ result = IntervalIntersects(arg[2], arg[1])
        /\ result <=> \E v \in GeomValues : In(arg[1], v) /\ In(arg[2], v)
        /\ (arg[1].end = arg[2].start) => ~result

\* C15 witness: two intervals that touch.
C15_Witness ==
    /\ op = "Interval::intersects"
    /\ arg[1].end = arg[2].start
    /\ ~result

\* C11 (as claimed): when a node subdivides, each item its bucket held moves
\* into the new child whose region contains the item's point.
C11_Redistributed ==
    op = "insert" =>
        \A pr \in PairsOf(before, tree) :
            (pr[1].subtrees = None /\ pr[2].subtrees # None) =>
                \A item \in Range(pr[1].points) :
                    \E c \in Children(pr[2]) :
                        item \in Range(c.points) /\ Inside(c.region, item.point)

\* C11 (amended): when a node subdivides its bucket is left as it was; the
\* new children are created empty and hold, after the call, at most the item
\* just inserted.
C11_BucketStays ==
    op = "insert" =>
        \A pr \in PairsOf(before, tree) :
            (pr[1].subtrees = None /\ pr[2].subtrees # None) =>
                /\ pr[2].points = pr[1].points
                /\ \A c \in Children(pr[2]) :
                      c.subtrees = None /\ Range(c.points) \subseteq {arg}

\* C11 witness: a successful insert subdivided a root whose bucket held two
\* items.
C11_Witness ==
    /\ op = "insert" /\ result = Ok
    /\ before.subtrees = None /\ tree.subtrees # None
    /\ Len(before.points) = 2

C18_BucketBounded ==
    \A n \in NodesOf(tree) :
        /\ Len(n.points) <= tree.capacity
        /\ n.capacity = tree.capacity
        /\ tree.capacity = before.capacity

\* C18 witness: a child of the root whose bucket is full, with capacity 2.
C18_Witness ==
    \E c \in Children(tree) : Len(c.points) = 2 /\ c.capacity = 2

\* C19: a node that has children keeps them: after every call it has the
\* same number of children, with the same regions, and each child still
\* holds what it held.
C19_ChildrenKept ==
    (op = "insert" \/ op = "query") =>
        \A pr \in PairsOf(before, tree) :
            pr[1].subtrees # None =>
                /\ pr[2].subtrees # None
                /\ Len(pr[2].subtrees[1]) = Len(pr[1].subtrees[1])
                /\ \A k \in 1..Len(pr[1].subtrees[1]) :
                      /\ pr[2].subtrees[1][k].region = pr[1].subtrees[1][k].region
                      /\ IsPrefix(pr[1].subtrees[1][k].points,
                                  pr[2].subtrees[1][k].points)

\* C19 witness: an insert into a tree whose root had children already
\* subdivided one of these children.
C19_Witness ==
    /\ op = "insert"
    /\ before.subtrees # None
    /\ \E pr \in PairsOf(before, tree) :
          pr[1] # before /\ pr[1].subtrees = None /\ pr[2].subtrees # None

\* C20: the children of every internal node are the boxes of its region's
\* subdivide(), in order: one per combination of the axes' sub-intervals
\* (between 1 and 2^N, 2^N when every axis splits), no point lies in two of
\* them, and a point lies in one of them exactly when it lies in the parent.
C20_ChildrenPartition ==
    \A n \in NodesOf(tree) :
        n.subtrees # None =>
            LET vec == n.subtrees[1]
                boxes == RegionSubdivide(n.region)
            IN  /\ Len(vec) = Len(boxes)
                /\ \A k \in 1..Len(vec) : vec[k].region = boxes[k]
                /\ Len(vec) =
                      LenProduct([k \in Axes |-> IntervalSubdivide(n.region[k])])
                /\ 1 <= Len(vec) /\ Len(vec) <= Pow2(N)
                /\ Splittable(n.region) => Len(vec) = Pow2(N)
                /\ \A p \in NearPoints :
                      /\ \A i, j \in 1..Len(vec) :
                            (i # j) => ~(Inside(vec[i].region, p)
                                           /\ Inside(vec[j].region, p))
                      /\ Inside(n.region, p)
                            <=> \E k \in 1..Len(vec) : Inside(vec[k].region, p)

\* C20 witness: an internal node with two children (one axis splits, the
\* other does not) below a root with four.
C20_Witness ==
    /\ tree.subtrees # None /\ Len(tree.subtrees[1]) = 4
    /\ \E c \in Children(tree) : c.subtrees # None /\ Len(c.subtrees[1]) = 2

\* C16: in a tree whose root splits on no axis, whatever its capacity, every
\* call of insert with an in-bounds point returns, and returns Ok, however
\* many such calls came before it.
C16_CoincidentInsertReturns ==
    (pc = "insert" /\ Unsplittable(tree.region) /\ Inside(tree.region, arg.point))
        ~> (pc = "idle" /\ result = Ok /\ arg \in Range(inserted))

\* C16 witness: the third insert of the same point into a root that splits
\* on no axis has returned Ok after going down two levels.
C16_Witness ==
    /\ pc = "idle" /\ op = "insert" /\ result = Ok
    /\ Unsplittable(tree.region)
    /\ Len(inserted) = 3
    /\ Depth(tree) = 2

\* C22 (as claimed): every interval try_new or a subdivide returns has
\* start < end.
C22_IntervalsValid ==
    /\ (op = "Interval::try_new" /\ result.ok)
          => result.value.start < result.value.end
    /\ op = "Interval::subdivide"
          => \A i \in Range(result) : i.start < i.end
    /\ op = "Region::subdivide"
          => \A r \in Range(result) : \A k \in Axes : r[k].start < r[k].end

\* C24: Point::try_new and Region::try_new return Ok exactly when the slice
\* has N elements, with these N elements in order, and Err otherwise; they
\* never panic.
C24_TryNewLength ==
    (op = "Point::try_new" \/ op = "Region::try_new") =>
        /\ result.kind # "panic"
        /\ result.kind = "Ok" <=> Len(arg) = N
        /\ result.kind = "Err" <=> Len(arg) # N
        /\ result.kind = "Ok" =>
              /\ DOMAIN result.value = Axes
              /\ \A k \in Axes : result.value[k] = arg[k]

\* C24 witness: a slice one element too long was refused.
C24_Witness ==
    /\ op = "Point::try_new"
    /\ Len(arg) = N + 1
    /\ result.kind = "Err"

\* C30: a.intersects(b) on regions is the conjunction over the axes of the
\* intervals' intersects, and it is true whenever some point lies in both
\* regions.
C30_RegionIntersects ==
    op = "Region::intersects" =>
        /\ result = (\A k \in Axes :
                        arg[1][k].start < arg[2][k].end
                            /\ arg[2][k].start < arg[1][k].end)
        /\ (\E p \in GeomPoints : Inside(arg[1], p) /\ Inside(arg[2], p))
              => result

\* C30 witness: two regions that overlap on one axis only do not intersect.
C30_Witness ==
    /\ op = "Region::intersects"
    /\ result = FALSE
    /\ \E k \in Axes : arg[1][k].start < arg[2][k].end
                          /\ arg[2][k].start < arg[1][k].end

\* C21 (as claimed): the bounding region of a distance query contains every
\* point within the radius of the centre, the points at center + radius on
\* an axis among them.
C21_BoxHoldsBall ==
    (op = "query" /\ arg.kind = "Distance") =>
        \A p \in NearPoints :
            QueryContains(arg, p) => RegionContains(QueryRegion(arg), p)

\* C23: a query leaves the tree as it was, and a step that changes the tree
\* is an insert.
C23_QueryKeepsTree ==
    [][/\ op' = "query" => tree' = tree
       /\ tree' # tree => op' = "insert"]_vars

\* C23 witness: a query on a subdivided tree returned items of the root and
\* of a child, and the tree is what it was.
C23_Witness ==
    /\ op = "query"
    /\ tree = before
    /\ tree.subtrees # None
    /\ Range(result) \cap Range(tree.points) # { }
    /\ \E c \in Children(tree) : Range(result) \cap Range(c.points) # { }

\* The tree a is the tree b with the item appended to the bucket of the
\* first node with room on the way down from b's root, where the way leads
\* from a full node into the one child whose region holds the item's point
\* (a new, empty child when b had none); everything else is as in b.
RECURSIVE StoredBelow(_, _, _)
StoredBelow(b, a, item) ==
    /\ a.region = b.region
    /\ a.capacity = b.capacity
    /\ IF Len(b.points) < b.capacity
       THEN /\ b.subtrees = None
            /\ a.subtrees = None
            /\ a.points = Append(b.points, item)
       ELSE /\ a.points = b.points
            /\ a.subtrees # None
            /\ LET avec == a.subtrees[1]
                   bvec == IF b.subtrees # None THEN b.subtrees[1]
                           ELSE [k \in 1..Len(avec) |->
                                    [region |-> avec[k].region,
                                     subtrees |-> None,
                                     points |-> << >>,
                                     capacity |-> b.capacity]]
               IN  /\ Len(avec) = Len(bvec)
                   /\ \E k \in 1..Len(avec) :
                         /\ Inside(avec[k].region, item.point)
                         /\ StoredBelow(bvec[k], avec[k], item)
                         /\ \A j \in 1..Len(avec) : (j # k) =>
                               /\ avec[j] = bvec[j]
                               /\ ~Inside(avec[j].region, item.point)

\* C25: a successful insert appends the item to the bucket of the first
\* node with room on the way down from the root; that node is a leaf, and
\* no other bucket changes.
C25_StoredInFirstRoom ==
    (op = "insert" /\ result = Ok) => StoredBelow(before, tree, arg)

\* C25 witness: the item went into a grandchild of the root.
C25_Witness ==
    /\ op = "insert" /\ result = Ok
    /\ \E c \in Children(tree) : \E g \in Children(c) : arg \in Range(g.points)

\* The nodes that were leaves when the running or last call of insert began
\* and have children now, each with what it was.
SubdividedPairs ==
    {pr \in PairsOf(before, tree) :
        pr[1].subtrees = None /\ pr[2].subtrees # None}

\* C26: a call of insert gives children to at most one node, a node whose
\* bucket is full and that had none; the new children are leaves, empty
\* while the call goes on and holding at most the new item when it has
\* returned; a tree just built has no children.
C26_LazySubdivision ==
    /\ op = "new" => tree.subtrees = None
    /\ op = "insert" =>
          /\ Cardinality(SubdividedPairs) <= 1
          /\ \A pr \in SubdividedPairs :
                /\ Len(pr[1].points) = pr[1].capacity
                /\ \A c \in Children(pr[2]) :
                      /\ c.subtrees = None
                      /\ Range(c.points) \subseteq {arg}
                      /\ pc = "insert" => c.points = << >>

\* C26 witness: the running call has just given children to a child of the
\* root and is about to go into one of them.
C26_Witness ==
    /\ pc = "insert"
    /\ Len(stack) = 2
    /\ \E pr \in SubdividedPairs : pr[1] # before

\* C27: a node that has children holds exactly C items; a node with room
\* is a leaf.
C27_InternalIsFull ==
    \A n \in NodesOf(tree) :
        /\ n.subtrees # None => Len(n.points) = n.capacity
        /\ Len(n.points) < n.capacity => n.subtrees = None

\* C27 witness: a root and a child of it both have children, with
\* capacity 1.
C27_Witness ==
    /\ tree.subtrees # None
    /\ \E c \in Children(tree) : c.subtrees # None /\ Len(c.points) = 1

\* C28: the point of every item in a node's bucket lies in the node's
\* region and in the region of the node's parent.
C28_ItemsInRegion ==
    \A n \in NodesOf(tree) :
        /\ \A item \in Range(n.points) : Inside(n.region, item.point)
        /\ \A c \in Children(n) :
              \A item \in Range(c.points) : Inside(n.region, item.point)

\* C28 witness: an item stored two levels below the root.
C28_Witness ==
    \E c \in Children(tree) : \E g \in Children(c) : g.points # << >>

\* C29: for a query whose fine predicate implies containment in its region,
\* query returns exactly the stored items the predicate accepts; for every
\* query it returns only items the predicate accepts.
C29_PruningComplete ==
    op = "query" =>
        /\ \A item \in Range(result) : QueryContains(arg, item.point)
        /\ (\A p \in NearPoints :
                QueryContains(arg, p) => Inside(QueryRegion(arg), p))
              => SameItems(result, Scan(inserted, arg))

\* C29 witness: a query that is no Region, whose region holds every point
\* its predicate accepts, returned an item at distance exactly the radius
\* that is stored in a child of the root.
C29_Witness ==
    /\ op = "query" /\ arg.kind = "ClosedBox"
    /\ \A p \in NearPoints :
          QueryContains(arg, p) => Inside(QueryRegion(arg), p)
    /\ \E c \in Children(tree) : \E item \in Range(c.points) :
          /\ item \in Range(result)
          /\ \E k \in Axes : item.point[k] = arg.center[k] + arg.radius

=============================================================================
